---- MODULE Spec2Model ----
(***************************************************************************)
(* Model of the ntex todo REST service: the routing table assembled in     *)
(* main, the five todo handlers, the swagger explorer handler, the default *)
(* service and the HttpError response conversion.  Each worker handles one *)
(* request at a time; requests of different workers interleave.            *)
(***************************************************************************)
EXTENDS Integers, Sequences, FiniteSets, TLC

\* ------------------------------------------------------------------ bounds

\* number of requests that can be in flight at once
MaxWorkers == 2
\* todo ids 1..MaxId appear in request paths
MaxId == 1

Workers == 1..MaxWorkers

\* decimal rendering of a path id
IdStr(i) == IF i = 1 THEN "1" ELSE IF i = 2 THEN "2" ELSE IF i = 3 THEN "3" ELSE "9"

IdSegs == {IdStr(i) : i \in 1..MaxId}

\* ------------------------------------------------------------------ values

\* a response body: nothing, a JSON value, plain text, or raw bytes
EmptyBody == [kind |-> "empty"]

JsonValue(v) == [kind |-> "json", value |-> v]

TextBody(t) == [kind |-> "text", text |-> t]

BytesBody(b) == [kind |-> "bytes", bytes |-> b]

NoContentType == ""

NoResponse == [status |-> 0, ctype |-> NoContentType, body |-> EmptyBody]

NoRequest == [method |-> "", path |-> <<>>, body |-> [kind |-> "empty", members |-> {}]]

NoError == [msg |-> "", status |-> 0]

NoConf == [urls |-> {}, layout |-> ""]

\* ------------------------------------------------------------------ error.rs

\* the fields of HttpError, and the ones serde skips
HttpErrorFields == {"msg", "status"}

HttpErrorSkipped == {"status"}

\* derive(Serialize) on HttpError: a JSON object of the fields not skipped,
\* as a set of <<key, type, value>> members
HttpErrorSerializeDropMsg(e) == {}

HttpErrorSerializeKeepStatus(e) == {<<"msg", "str", e.msg>>, <<"status", "num", "0">>}

HttpErrorSerialize(e) ==
  {<<f, "str", e[f]>> : f \in (HttpErrorFields \ HttpErrorSkipped)}

\* HttpResponse::build(self.status).json(&self)
error_response(e) ==
  [status |-> e.status, ctype |-> "application/json",
   body |-> JsonValue(HttpErrorSerialize(e))]

\* ------------------------------------------------------------------ models/todo.rs

\* derive(Deserialize) on TodoPartial { title: String }: the body must be a
\* JSON object with a string member "title"; other members are ignored
DeserializesLenient(b) == b.kind = "object"

TodoPartialDeserializes(b) ==
  /\ b.kind = "object"
  /\ \E m \in b.members : m[1] = "title" /\ m[2] = "str"

\* ------------------------------------------------------------------ services/todo.rs

\* each handler: its route attribute and its utoipa::path annotation
get_todos ==
  [name |-> "get_todos", method |-> "GET", pattern |-> <<"todos">>,
   doc |-> [method |-> "GET", path |-> <<"todos">>, request_body |-> "",
            responses |-> {<<200, "[Todo]">>}]]

create_todo ==
  [name |-> "create_todo", method |-> "POST", pattern |-> <<"todos">>,
   doc |-> [method |-> "POST", path |-> <<"todos">>, request_body |-> "TodoPartial",
            responses |-> {<<201, "Todo">>}]]

get_todo ==
  [name |-> "get_todo", method |-> "GET", pattern |-> <<"todos", "{id}">>,
   doc |-> [method |-> "GET", path |-> <<"todos", "{id}">>, request_body |-> "",
            responses |-> {<<200, "Todo">>, <<404, "HttpError">>}]]

update_todo ==
  [name |-> "update_todo", method |-> "PUT", pattern |-> <<"todos", "{id}">>,
   doc |-> [method |-> "PUT", path |-> <<"todos", "{id}">>, request_body |-> "TodoPartial",
            responses |-> {<<200, "Todo">>, <<404, "HttpError">>}]]

delete_todo ==
  [name |-> "delete_todo", method |-> "DELETE", pattern |-> <<"todos", "{id}">>,
   doc |-> [method |-> "DELETE", path |-> <<"todos", "{id}">>, request_body |-> "",
            responses |-> {<<200, "Todo">>, <<404, "HttpError">>}]]

\* todo::ntex_config: the services registered, in order
TodoServices == <<get_todos, create_todo, get_todo, update_todo, delete_todo>>

\* ------------------------------------------------------------------ services/openapi.rs

\* #[openapi(paths(...))]: the handlers whose annotations are collected
ApiDocPathsMissingDelete == {get_todos, create_todo, get_todo, update_todo}

ApiDocPaths == {get_todos, create_todo, get_todo, update_todo, delete_todo}

\* components(schemas(...))
ApiDocSchemas == {"Todo", "TodoPartial", "HttpError"}

\* ApiDoc::openapi(): the document built from the collected annotations
OpenApi == [paths |-> {h.doc : h \in ApiDocPaths}, schemas |-> ApiDocSchemas]

\* the configuration built in openapi::ntex_config
SwaggerConfig == [urls |-> {"/explorer/swagger.json"}, layout |-> "BaseLayout"]


\* utoipa_swagger_ui's bundled assets and their declared content types
SwaggerUiDist == {"index.html", "swagger-initializer.js", "swagger-ui.css"}

ContentTypeOf(file) ==
  IF file = "index.html" THEN "text/html"
  ELSE IF file = "swagger-initializer.js" THEN "application/javascript"
  ELSE IF file = "swagger-ui.css" THEN "text/css"
  ELSE "application/octet-stream"

\* the results utoipa_swagger_ui::serve(&tail, conf) can return: an error,
\* Ok(None) for an unknown file, or Ok(Some(file)); the initializer script is
\* rendered from the configuration it is given
serve(tail, c) ==
  LET file_path == IF tail = "" THEN "index.html" ELSE tail
      found == IF file_path \in SwaggerUiDist
                 THEN [kind |-> "some",
                       bytes |-> IF file_path = "swagger-initializer.js"
                                   THEN <<file_path, c>> ELSE <<file_path, NoConf>>,
                       content_type |-> ContentTypeOf(file_path), error |-> ""]
                 ELSE [kind |-> "none", bytes |-> <<"", NoConf>>,
                       content_type |-> "", error |-> ""]
  IN {found, [kind |-> "err", bytes |-> <<"", NoConf>>,
              content_type |-> "", error |-> "io"]}

\* the HttpError values get_swagger builds
SpecGenerationError(e) ==
  [msg |-> "Error generating OpenAPI spec: " \o e, status |-> 500]

ServeError(e) == [msg |-> "Error serving Swagger UI: " \o e, status |-> 500]

PathNotFoundUnnamed(tail) == [msg |-> "path not found", status |-> 404]

PathNotFound(tail) == [msg |-> "path not found: " \o tail, status |-> 404]

\* the results ApiDoc::openapi().to_json() can return
to_json == {[ok |-> TRUE, json |-> OpenApi, error |-> ""],
            [ok |-> FALSE, json |-> [paths |-> {}, schemas |-> {}], error |-> "ser"]}

\* ------------------------------------------------------------------ requests

Methods == {"GET", "POST", "PUT", "DELETE", "PATCH"}

TodoPaths == {<<"todos">>} \cup {<<"todos", s>> : s \in IdSegs}

ExplorerPaths == {<<"explorer", "swagger.json">>, <<"explorer", "swagger-initializer.js">>,
                  <<"explorer", "nope.png">>}

OtherPaths == {<<"health">>}

Titles == {"a", "b"}

\* request bodies: none, bytes that are not JSON, and JSON objects with or
\* without a title member
NoBody == [kind |-> "empty", members |-> {}]

Bodies ==
  {NoBody, [kind |-> "malformed", members |-> {}], [kind |-> "object", members |-> {}],
   [kind |-> "object", members |-> {<<"title", "num", "7">>}]}
  \cup {[kind |-> "object", members |-> {<<"title", "str", t>>}] : t \in Titles}

\* the requests the workers are offered: every method on the todo paths, the
\* bodies on the two routes that declare a request body, the explorer files,
\* and method/path combinations no route is registered for
Requests ==
  {[method |-> m, path |-> p, body |-> NoBody] : m \in Methods, p \in TodoPaths}
  \cup {[method |-> "POST", path |-> <<"todos">>, body |-> b] : b \in Bodies}
  \cup {[method |-> "PUT", path |-> <<"todos", s>>, body |-> b] :
          s \in IdSegs, b \in {[kind |-> "object", members |-> {}],
                                [kind |-> "object", members |-> {<<"title", "str", "a">>}]}}
  \cup {[method |-> "GET", path |-> p, body |-> NoBody] : p \in ExplorerPaths \cup OtherPaths}
  \cup {[method |-> "POST", path |-> <<"explorer", "swagger.json">>, body |-> NoBody]}

\* ------------------------------------------------------------------ routing

\* a resource pattern matches a path segment by segment; {id} matches any
MatchPattern(pattern, path) ==
  /\ Len(pattern) = Len(path)
  /\ \A i \in 1..Len(pattern) : pattern[i] = "{id}" \/ pattern[i] = path[i]

\* web::scope("/explorer/") claims every path under the prefix
InExplorerScope(path) == Len(path) >= 2 /\ path[1] = "explorer"

RECURSIVE JoinPath(_)
JoinPath(segs) ==
  IF Len(segs) = 0 THEN ""
  ELSE IF Len(segs) = 1 THEN segs[1]
  ELSE segs[1] \o "/" \o JoinPath(Tail(segs))

\* the {tail}* segment of get_swagger's pattern
TailOf(path) == JoinPath(Tail(path))

\* the first registered todo service whose pattern and method guard accept
\* the request, or 0
TodoIndex(r) ==
  LET hits == {i \in 1..Len(TodoServices) :
                 /\ TodoServices[i].method = r.method
                 /\ MatchPattern(TodoServices[i].pattern, r.path)}
  IN IF hits = {} THEN 0 ELSE CHOOSE i \in hits : \A j \in hits : i <= j

\* main: the explorer scope, then the todo services, then the default service
RouteNoDefault(r) ==
  IF InExplorerScope(r.path) THEN "get_swagger"
  ELSE IF TodoIndex(r) # 0 THEN TodoServices[TodoIndex(r)].name
  ELSE "get_todos"

Route(r) ==
  IF InExplorerScope(r.path)
    THEN IF r.method = "GET" THEN "get_swagger" ELSE "default"
  ELSE IF TodoIndex(r) # 0 THEN TodoServices[TodoIndex(r)].name
  ELSE "default"

\* ------------------------------------------------------------------ state

VARIABLES
  swagger_config,  \* the Arc<Config> held in the explorer scope's state
  pc,              \* per worker: "idle", "dispatch", "serve" or "done"
  req,             \* per worker: the request being handled
  conf,            \* per worker: get_swagger's copy of the configuration
  ran,             \* per worker: the handler whose body has executed
  err,             \* per worker: the HttpError the handler returned
  lookup,          \* per worker: what the asset lookup returned
  resp,            \* per worker: the response
  deleted,         \* history: ids whose DELETE was answered 200, no create since
  after,           \* history: the request arrived after such a DELETE of its id
  herr,            \* an HttpError value being converted
  hresp            \* the response it was converted to

vars == <<swagger_config, pc, req, conf, ran, err, lookup, resp, deleted, after,
          herr, hresp>>

hvars == <<herr, hresp>>

svars == <<swagger_config, pc, req, conf, ran, err, lookup, resp, deleted, after>>

NoLookup == "none"

\* the id segment of a /todos/{id} path, "" otherwise
PathId(r) == IF Len(r.path) = 2 /\ r.path[1] = "todos" THEN r.path[2] ELSE ""

Init ==
  /\ swagger_config = SwaggerConfig
  /\ pc = [w \in Workers |-> "idle"]
  /\ req = [w \in Workers |-> NoRequest]
  /\ conf = [w \in Workers |-> NoConf]
  /\ ran = [w \in Workers |-> "none"]
  /\ err = [w \in Workers |-> NoError]
  /\ lookup = [w \in Workers |-> NoLookup]
  /\ resp = [w \in Workers |-> NoResponse]
  /\ deleted = {}
  /\ after = [w \in Workers |-> FALSE]
  /\ herr = NoError
  /\ hresp = NoResponse

\* a worker accepts a request
Receive(w) ==
  /\ pc[w] = "idle"
  /\ \E r \in Requests :
       /\ req' = [req EXCEPT ![w] = r]
       /\ after' = [after EXCEPT ![w] = r.method = "DELETE" /\ PathId(r) \in deleted]
  /\ pc' = [pc EXCEPT ![w] = "dispatch"]
  /\ UNCHANGED <<swagger_config, conf, ran, err, lookup, resp, deleted, hvars>>

\* a handler finishes with an HttpResponse
Reply(w, name, r) ==
  /\ pc' = [pc EXCEPT ![w] = "done"]
  /\ ran' = [ran EXCEPT ![w] = name]
  /\ resp' = [resp EXCEPT ![w] = r]

\* a handler finishes with Err(HttpError): the framework calls error_response
ReplyErr(w, name, e) ==
  /\ pc' = [pc EXCEPT ![w] = "done"]
  /\ ran' = [ran EXCEPT ![w] = name]
  /\ err' = [err EXCEPT ![w] = e]
  /\ resp' = [resp EXCEPT ![w] = error_response(e)]

\* HttpResponse::Ok().finish(), HttpResponse::Created().finish(),
\* HttpResponse::NotFound().finish()
FinishAlwaysOk(status) == [status |-> 200, ctype |-> NoContentType, body |-> EmptyBody]

Finish(status) == [status |-> status, ctype |-> NoContentType, body |-> EmptyBody]

\* the Json<TodoPartial> extractor's rejection of a body it cannot deserialize
JsonPayloadErrorResponse ==
  [status |-> 400, ctype |-> "text/plain", body |-> TextBody("Json deserialize error")]

GetTodos(w) ==
  /\ pc[w] = "dispatch"
  /\ Route(req[w]) = "get_todos"
  /\ Reply(w, "get_todos", Finish(200))
  /\ UNCHANGED <<swagger_config, req, conf, err, lookup, deleted, after, hvars>>

CreateTodo(w) ==
  /\ pc[w] = "dispatch"
  /\ Route(req[w]) = "create_todo"
  /\ IF TodoPartialDeserializes(req[w].body)
       THEN Reply(w, "create_todo", Finish(201))
       ELSE Reply(w, "none", JsonPayloadErrorResponse)
  /\ UNCHANGED <<swagger_config, req, conf, err, lookup, deleted, after, hvars>>

GetTodo(w) ==
  /\ pc[w] = "dispatch"
  /\ Route(req[w]) = "get_todo"
  /\ Reply(w, "get_todo", Finish(200))
  /\ UNCHANGED <<swagger_config, req, conf, err, lookup, deleted, after, hvars>>

UpdateTodo(w) ==
  /\ pc[w] = "dispatch"
  /\ Route(req[w]) = "update_todo"
  /\ Reply(w, "update_todo", Finish(200))
  /\ UNCHANGED <<swagger_config, req, conf, err, lookup, deleted, after, hvars>>

DeleteTodo(w) ==
  /\ pc[w] = "dispatch"
  /\ Route(req[w]) = "delete_todo"
  /\ Reply(w, "delete_todo", Finish(200))
  /\ UNCHANGED <<swagger_config, req, conf, err, lookup, deleted, after, hvars>>

\* services::default
Default(w) ==
  /\ pc[w] = "dispatch"
  /\ Route(req[w]) = "default"
  /\ Reply(w, "default", Finish(404))
  /\ UNCHANGED <<swagger_config, req, conf, err, lookup, deleted, after, hvars>>

\* get_swagger up to the call of serve: the swagger.json branch, or the copy
\* of the shared configuration
GetSwaggerSharesConf(w) ==
  /\ pc[w] = "dispatch"
  /\ Route(req[w]) = "get_swagger"
  /\ TailOf(req[w].path) # "swagger.json"
  /\ conf' = [conf EXCEPT ![w] = swagger_config]
  /\ swagger_config' = [swagger_config EXCEPT !.layout = "StandaloneLayout"]
  /\ pc' = [pc EXCEPT ![w] = "serve"]
  /\ UNCHANGED <<ran, err, resp, lookup, req, deleted, after, hvars>>

GetSwagger(w) ==
  /\ pc[w] = "dispatch"
  /\ Route(req[w]) = "get_swagger"
  /\ IF TailOf(req[w].path) = "swagger.json"
       THEN /\ \E spec \in to_json :
                 IF spec.ok
                   THEN /\ Reply(w, "get_swagger",
                                 [status |-> 200, ctype |-> "application/json",
                                  body |-> JsonValue(spec.json)])
                        /\ UNCHANGED err
                   ELSE ReplyErr(w, "get_swagger", SpecGenerationError(spec.error))
            /\ UNCHANGED conf
       ELSE /\ conf' = [conf EXCEPT ![w] = swagger_config]
            /\ pc' = [pc EXCEPT ![w] = "serve"]
            /\ UNCHANGED <<ran, err, resp>>
  /\ UNCHANGED <<swagger_config, req, lookup, deleted, after, hvars>>

\* get_swagger from the call of serve on
ServeSwaggerUi(w) ==
  /\ pc[w] = "serve"
  /\ \E file \in serve(TailOf(req[w].path), conf[w]) :
       /\ lookup' = [lookup EXCEPT ![w] = file.kind]
       /\ IF file.kind = "err"
            THEN ReplyErr(w, "get_swagger", ServeError(file.error))
          ELSE IF file.kind = "none"
            THEN ReplyErr(w, "get_swagger", PathNotFound(TailOf(req[w].path)))
          ELSE /\ Reply(w, "get_swagger",
                        [status |-> 200, ctype |-> file.content_type,
                         body |-> BytesBody(file.bytes)])
               /\ UNCHANGED err
  /\ UNCHANGED <<swagger_config, req, conf, deleted, after, hvars>>

\* the response is sent and the worker is free again
Send(w) ==
  /\ pc[w] = "done"
  /\ deleted' =
       IF resp[w].status = 201 THEN {}
       ELSE IF req[w].method = "DELETE" /\ PathId(req[w]) # "" /\ resp[w].status = 200
         THEN deleted \cup {PathId(req[w])}
       ELSE deleted
  /\ after' = IF resp[w].status = 201 THEN [v \in Workers |-> FALSE]
              ELSE [after EXCEPT ![w] = FALSE]
  /\ pc' = [pc EXCEPT ![w] = "idle"]
  /\ req' = [req EXCEPT ![w] = NoRequest]
  /\ conf' = [conf EXCEPT ![w] = NoConf]
  /\ ran' = [ran EXCEPT ![w] = "none"]
  /\ err' = [err EXCEPT ![w] = NoError]
  /\ lookup' = [lookup EXCEPT ![w] = NoLookup]
  /\ resp' = [resp EXCEPT ![w] = NoResponse]
  /\ UNCHANGED <<swagger_config, hvars>>

Next ==
  \E w \in Workers :
    \/ Receive(w)
    \/ GetTodos(w)
    \/ CreateTodo(w)
    \/ GetTodo(w)
    \/ UpdateTodo(w)
    \/ DeleteTodo(w)
    \/ GetSwagger(w)
    \/ ServeSwaggerUi(w)
    \/ Default(w)
    \/ Send(w)

Spec == Init /\ [][Next]_vars

\* ------------------------------------------------------------------ HttpError conversion

HttpStatuses == {400, 404, 409, 500, 503}

Messages ==
  {p \o t : p \in {"", "path not found: ", "Error serving Swagger UI: ",
                   "Error generating OpenAPI spec: "},
            t \in {"nope.png", "a/b.js", "io", "status"}}

HttpErrors == [msg : Messages, status : HttpStatuses]

InitError ==
  /\ Init!1 /\ Init!2 /\ Init!3 /\ Init!4 /\ Init!5
  /\ Init!6 /\ Init!7 /\ Init!8 /\ Init!9 /\ Init!10
  /\ herr \in HttpErrors
  /\ hresp = NoResponse

\* the framework converts the error with error_response
ErrorResponse ==
  /\ hresp = NoResponse
  /\ hresp' = error_response(herr)
  /\ UNCHANGED <<herr, svars>>

NextError == ErrorResponse

SpecError == InitError /\ [][NextError]_vars

\* ------------------------------------------------------------------ properties

\* C1: a request whose method and path match none of the registered routes
\* (the five todo routes and GET under /explorer/) is answered 404 with an
\* empty body, and every 404 that comes from an HttpError carries a JSON body
\* with a msg member, so the two are distinguishable.
C1_UnmatchedIs404Empty ==
  \A w \in Workers :
    pc[w] = "done" =>
      LET r == req[w]
          registered ==
            \/ r.method = "GET" /\ Len(r.path) >= 2 /\ r.path[1] = "explorer"
            \/ r.method \in {"GET", "POST"} /\ r.path = <<"todos">>
            \/ /\ r.method \in {"GET", "PUT", "DELETE"}
               /\ Len(r.path) = 2 /\ r.path[1] = "todos"
      IN /\ ~registered =>
              /\ resp[w].status = 404
              /\ resp[w].body = EmptyBody
              /\ err[w] = NoError
         /\ (err[w] # NoError /\ resp[w].status = 404) =>
              /\ resp[w].body.kind = "json"
              /\ \E m \in resp[w].body.value : m[1] = "msg"
              /\ resp[w].body # EmptyBody

C1_Witness ==
  \E w \in Workers :
    /\ pc[w] = "done"
    /\ req[w].method = "PATCH" /\ req[w].path = <<"todos", "1">>
    /\ ran[w] = "default"
    /\ resp[w].status = 404

\* C2: a GET under /explorer/ with tail p ends in exactly one of: for
\* swagger.json, 200 with the OpenAPI document as JSON or a 500 HttpError,
\* without the asset lookup being consulted; otherwise 200 with the asset's
\* bytes and content type when the lookup finds p, a 404 HttpError whose msg
\* names p when it finds nothing, and a 500 HttpError when it fails.
C2_GetSwaggerOutcomes ==
  \A w \in Workers :
    (pc[w] = "done" /\ req[w].method = "GET" /\ Len(req[w].path) >= 2
       /\ req[w].path[1] = "explorer") =>
      LET p == req[w].path[2] IN
      IF p = "swagger.json"
        THEN /\ lookup[w] = NoLookup /\ conf[w] = NoConf
             /\ \/ /\ err[w] = NoError
                   /\ resp[w].status = 200
                   /\ resp[w].ctype = "application/json"
                   /\ resp[w].body = JsonValue(OpenApi)
                \/ /\ err[w].status = 500
                   /\ resp[w].status = 500
                   /\ resp[w].body = JsonValue({<<"msg", "str", err[w].msg>>})
        ELSE /\ lookup[w] \in {"some", "none", "err"}
             /\ lookup[w] = "some" =>
                  /\ err[w] = NoError
                  /\ resp[w].status = 200
                  /\ resp[w].body.kind = "bytes"
                  /\ resp[w].body.bytes[1] = p
                  /\ resp[w].ctype = ContentTypeOf(p)
             /\ lookup[w] = "none" =>
                  /\ resp[w].status = 404
                  /\ err[w] = [msg |-> "path not found: " \o p, status |-> 404]
                  /\ resp[w].body = JsonValue({<<"msg", "str", "path not found: " \o p>>})
             /\ lookup[w] = "err" =>
                  /\ resp[w].status = 500
                  /\ err[w].status = 500
                  /\ resp[w].body = JsonValue({<<"msg", "str", err[w].msg>>})

C2_Witness ==
  \E w \in Workers :
    /\ pc[w] = "done"
    /\ req[w].method = "GET" /\ req[w].path = <<"explorer", "nope.png">>
    /\ lookup[w] = "none"
    /\ resp[w].status = 404

\* C3: the (method, path) operations of the generated OpenAPI document are
\* exactly the five todo routes registered with the server, and each
\* documented operation carries the status/schema pairs declared on its handler.
C3_DocMatchesRoutes ==
  \A w \in Workers :
    (pc[w] = "done" /\ req[w].path = <<"explorer", "swagger.json">>
       /\ resp[w].status = 200) =>
      LET doc == resp[w].body.value
          registered == {<<TodoServices[i].method, TodoServices[i].pattern>> :
                           i \in 1..Len(TodoServices)}
      IN /\ {<<op.method, op.path>> : op \in doc.paths} = registered
         /\ registered = {<<"GET", <<"todos">>>>, <<"POST", <<"todos">>>>,
                          <<"GET", <<"todos", "{id}">>>>, <<"PUT", <<"todos", "{id}">>>>,
                          <<"DELETE", <<"todos", "{id}">>>>}
         /\ \A op \in doc.paths :
              \E i \in 1..Len(TodoServices) :
                /\ TodoServices[i].method = op.method
                /\ TodoServices[i].pattern = op.path
                /\ TodoServices[i].doc.responses = op.responses
         /\ \A r \in Requests :
              (\E op \in doc.paths : op.method = r.method /\ MatchPattern(op.path, r.path))
                <=> Route(r) \in {TodoServices[i].name : i \in 1..Len(TodoServices)}

C3_Witness ==
  \E w \in Workers :
    /\ pc[w] = "done"
    /\ req[w].path = <<"explorer", "swagger.json">>
    /\ resp[w].status = 200
    /\ Cardinality(resp[w].body.value.paths) = 5

\* C4: for every HttpError {msg, status}, error_response gives a response
\* whose status is the stored status and whose JSON body is exactly
\* {"msg": msg}, with no status member.
C4_ErrorResponseShape ==
  hresp # NoResponse =>
    /\ hresp.status = herr.status
    /\ hresp.body = JsonValue({<<"msg", "str", herr.msg>>})
    /\ \A m \in hresp.body.value : m[1] # "status"

C4_Witness ==
  /\ hresp # NoResponse
  /\ herr = [msg |-> "path not found: status", status |-> 404]
  /\ hresp.status = 404

C6_CreateRoundTripsTitle ==
  \A w \in Workers :
    \A t \in Titles :
      (/\ pc[w] = "done"
       /\ req[w].method = "POST" /\ req[w].path = <<"todos">>
       /\ req[w].body = [kind |-> "object", members |-> {<<"title", "str", t>>}]) =>
        /\ resp[w].status = 201
        /\ resp[w].body.kind = "json"
        /\ <<"title", "str", t>> \in resp[w].body.value

\* C7: a DELETE /todos/{id} that arrives after a DELETE of the same id was
\* answered 200, with no create in between, is answered 404 with an
\* HttpError-shaped body.
C7_SecondDeleteIs404 ==
  \A w \in Workers :
    (pc[w] = "done" /\ req[w].method = "DELETE" /\ after[w]) =>
      /\ resp[w].status = 404
      /\ resp[w].body.kind = "json"
      /\ \E m \in resp[w].body.value : m[1] = "msg"

C10_ConfigReadOnly ==
  /\ swagger_config = [urls |-> {"/explorer/swagger.json"}, layout |-> "BaseLayout"]
  /\ \A w \in Workers :
       /\ conf[w] \in {NoConf, swagger_config}
       /\ pc[w] = "serve" => conf[w] = swagger_config
  /\ \A v, w \in Workers :
       (/\ pc[v] = "done" /\ pc[w] = "done"
        /\ req[v] = req[w] /\ lookup[v] = lookup[w] /\ err[v].status = err[w].status) =>
         resp[v] = resp[w]

C10_Witness ==
  \E v, w \in Workers :
    /\ v # w
    /\ pc[v] = "done" /\ pc[w] = "serve"
    /\ req[v].path = <<"explorer", "swagger-initializer.js">>
    /\ req[w].path = <<"explorer", "swagger-initializer.js">>
    /\ resp[v].status = 200
    /\ resp[v].body.bytes[2] = swagger_config

====
